---- MODULE Spec2Model ----
(***************************************************************************)
(* Model of compboost's logger classes (src/src/logger.cpp):               *)
(* LoggerIteration, LoggerInbagRisk, LoggerOobRisk and LoggerTime.         *)
(*                                                                         *)
(* One behaviour follows one logger object from the state its constructor  *)
(* leaves it in.  `double' values are modelled as exact rationals (records *)
(* [n, d] in lowest terms); the quotient of reachedStopCriteria keeps the  *)
(* IEEE outcomes of a division by zero (+inf, -inf, NaN).  Reads that the  *)
(* C++ standard leaves undefined (back() of an empty vector, ->second of   *)
(* map::end(), an arma::vec that was never filled) are nondeterministic    *)
(* choices over the outcomes a build can produce.                          *)
(*                                                                         *)
(* SpecTraining puts an iteration logger into the training loop that       *)
(* drives it, SpecRegistry follows two loggers held by a LoggerRegistry.   *)
(***************************************************************************)
EXTENDS Integers, Sequences, FiniteSets, TLC

(***************************************************************************)
(* Bounds of the model.                                                    *)
(***************************************************************************)
\* largest number of logStep calls on one logger
MaxCalls == 3
\* largest round index a caller passes to logStep
MaxRound == 6
\* largest whole number of configured time units the clock is followed for
MaxUnits == 2
\* largest max_time a time logger is configured with
MaxTime == 2
\* largest number of clearLoggerData calls on one logger
MaxClears == 1
\* resolution of the steady clock: clock ticks per microsecond
TicksPerMicro == 2
\* a round index with more decimal digits than every max_iterations
LongRound == 10

(***************************************************************************)
(* Program constants.                                                      *)
(***************************************************************************)
\* std::chrono::seconds counted in microseconds
MicrosPerSecond == 1000000
\* std::chrono::minutes counted in seconds
SecondsPerMinute == 60
\* std::setw of the risk and time loggers' status text
StatusWidth == 17

(***************************************************************************)
(* double arithmetic, exact: a finite double is [n |-> num, d |-> den]     *)
(* with d > 0 and gcd(n, d) = 1.                                           *)
(***************************************************************************)
Abs(x) == IF x < 0 THEN -x ELSE x

RECURSIVE GCD(_, _)
GCD(a, b) == IF b = 0 THEN a ELSE GCD(b, a % b)

R(num, den) ==
    LET s == IF den < 0 THEN -1 ELSE 1
        g == GCD(Abs(num), Abs(den))
    IN  [n |-> (s * num) \div g, d |-> (s * den) \div g]

Zero == R(0, 1)

RAdd(x, y) == R(x.n * y.d + y.n * x.d, x.d * y.d)
RSub(x, y) == R(x.n * y.d - y.n * x.d, x.d * y.d)
RMul(x, y) == R(x.n * y.n, x.d * y.d)
RLeq(x, y) == x.n * y.d <= y.n * x.d
RAbs(x) == [n |-> Abs(x.n), d |-> x.d]

\* x / y as IEEE double division decides it: a finite quotient, or for a
\* zero divisor +inf, -inf or NaN by the sign of the dividend.
DDiv(x, y) ==
    IF y.n # 0 THEN [k |-> "fin", v |-> R(x.n * y.d, x.d * y.n)]
    ELSE IF x.n > 0 THEN [k |-> "pinf", v |-> Zero]
    ELSE IF x.n < 0 THEN [k |-> "ninf", v |-> Zero]
    ELSE [k |-> "nan", v |-> Zero]

\* q <= e for a quotient q of DDiv and a finite e: every comparison with NaN
\* is false, -inf is below and +inf above every finite value.
DLeq(q, e) ==
    CASE q.k = "fin"  -> RLeq(q.v, e)
      [] q.k = "ninf" -> TRUE
      [] q.k = "pinf" -> FALSE
      [] q.k = "nan"  -> FALSE

(***************************************************************************)
(* Text (std::string) as a sequence of characters.                         *)
(***************************************************************************)
Digits == <<"0", "1", "2", "3", "4", "5", "6", "7", "8", "9">>

\* std::to_string of an unsigned integer: its decimal digits
RECURSIVE to_string(_)
to_string(k) ==
    IF k < 10 THEN <<Digits[k + 1]>>
    ELSE Append(to_string(k \div 10), Digits[(k % 10) + 1])

\* ss << std::setw(w) << text: padded with blanks on the left up to w
\* characters, and written in full when it is longer
setw(w, text) ==
    IF Len(text) >= w THEN text
    ELSE [i \in 1..(w - Len(text)) |-> " "] \o text

\* ss << std::fixed << std::setprecision(2) << x for a finite double:
\* sign, integer part, point, two decimals, rounded to nearest (ties to even)
Fixed2(x) ==
    LET a == Abs(x.n) * 100
        q == a \div x.d
        r == a % x.d
        rounded == IF 2 * r > x.d THEN q + 1
                   ELSE IF 2 * r < x.d THEN q
                   ELSE IF q % 2 = 0 THEN q ELSE q + 1
        frac == rounded % 100
    IN  (IF x.n < 0 THEN <<"-">> ELSE <<>>)
            \o to_string(rounded \div 100)
            \o <<".", Digits[(frac \div 10) + 1], Digits[(frac % 10) + 1]>>

(***************************************************************************)
(* arma::vec as a sequence of doubles.                                     *)
(***************************************************************************)
Back(s) == s[Len(s)]

Fill(v, x) == [i \in 1..Len(v) |-> x]
VecScale(a, v) == [i \in 1..Len(v) |-> RMul(a, v[i])]
VecAdd(v, w) == [i \in 1..Len(v) |-> RAdd(v[i], w[i])]

RECURSIVE Accu(_)
Accu(v) == IF v = <<>> THEN Zero ELSE RAdd(v[1], Accu(Tail(v)))

\* arma::mean / accu(...) / size() of a non-empty vector
Mean(v) == R(Accu(v).n, Accu(v).d * Len(v))

(***************************************************************************)
(* The collaborators a logger borrows.                                     *)
(***************************************************************************)
One == R(1, 1)

\* used_loss->definedLoss(response, prediction): one loss per observation.
\* "absolute" is |y - f|; "custom" stands for a user-supplied loss, here the
\* signed residual y - f, whose mean can be negative.
Losses == {"absolute", "custom"}
\* the losses a validation-risk logger is followed with
OobLosses == {"absolute"}

DefinedLoss(loss, response, prediction) ==
    [i \in 1..Len(response) |->
        IF loss = "absolute"
        THEN RAbs(RSub(response[i], prediction[i]))
        ELSE RSub(response[i], prediction[i])]

\* A fitted base learner: the identifier of the feature it was fitted on
\* and one coefficient; predict(data) is coefficient * feature value.
Blearners ==
    { [id |-> "x1", coef |-> R(2, 1)],
      [id |-> "x2", coef |-> R(-1, 1)],
      [id |-> "x3", coef |-> R(2, 1)] }

Predict(blearner, data) == VecScale(blearner.coef, data)

(***************************************************************************)
(* Inputs of the constructors and of logStep.                              *)
(***************************************************************************)
EpsForBreak == {R(-1, 10), Zero, R(1, 20)}

\* (response, prediction) pairs of the training data handed to logStep
TrainRounds ==
    { [response |-> <<Zero>>, prediction |-> <<One>>],
      [response |-> <<Zero>>, prediction |-> <<R(9, 10)>>],
      [response |-> <<Zero>>, prediction |-> <<R(87, 100)>>],
      [response |-> <<Zero>>, prediction |-> <<Zero>>],
      [response |-> <<One, Zero>>, prediction |-> <<Zero, Zero>>] }

\* held-out data (feature identifier -> feature values) with its response
OobSets ==
    { [data |-> ("x1" :> <<One, R(2, 1)>> @@ "x2" :> <<Zero, One>>),
       response |-> <<R(2, 1), R(4, 1)>>] }

Offsets == {Zero, R(1, 2)}
LearningRates == {R(1, 10), One}
\* the round indices a validation-risk logger is called with
OobRounds == 1..MaxCalls

\* what memory that was never written, or memory behind a wild pointer,
\* may hold when it is read as a double
GarbageDoubles == {Zero, R(7, 1)}
GarbageVectors(n) == { [i \in 1..n |-> g] : g \in GarbageDoubles }

\* what a double read through a wild pointer holds
WildDouble == R(7, 1)

TimeUnits == {"minutes", "seconds", "microseconds"}
\* the units a caller asks the constructor for
RequestedUnits == TimeUnits \cup {"days", "Seconds"}

\* clock ticks of one unit of duration_cast<minutes|seconds|microseconds>
TicksPerUnit(unit) ==
    CASE unit = "minutes"      -> SecondsPerMinute * MicrosPerSecond * TicksPerMicro
      [] unit = "seconds"      -> MicrosPerSecond * TicksPerMicro
      [] unit = "microseconds" -> TicksPerMicro

\* the instants at which the steady clock is read: around every whole
\* number of units, up to MaxUnits
ClockPoints(unit) ==
    { k * TicksPerUnit(unit) + e :
        k \in 0..MaxUnits, e \in {0, 1, TicksPerUnit(unit) - 1} }

(***************************************************************************)
(* State.                                                                  *)
(***************************************************************************)
VARIABLES
    kind,               \* which Logger subclass the object is ("none": no object)
    is_a_stopper,       \* Logger::is_a_stopper
    max_iterations,     \* LoggerIteration::max_iterations
    iterations,         \* LoggerIteration::iterations
    used_loss,          \* LoggerInbagRisk/LoggerOobRisk::used_loss
    eps_for_break,      \* LoggerInbagRisk/LoggerOobRisk::eps_for_break
    tracked_inbag_risk, \* LoggerInbagRisk::tracked_inbag_risk
    oob_data,           \* LoggerOobRisk::oob_data
    oob_response,       \* LoggerOobRisk::oob_response
    oob_prediction,     \* LoggerOobRisk::oob_prediction
    tracked_oob_risk,   \* LoggerOobRisk::tracked_oob_risk
    max_time,           \* LoggerTime::max_time
    time_unit,          \* LoggerTime::time_unit
    init_time,          \* LoggerTime::init_time
    current_time,       \* LoggerTime::current_time
    clock,              \* std::chrono::steady_clock, last value read
    alive,              \* FALSE once the process was killed by a wild read
    last_call,          \* the member function called last, and how it ended
    ret,                \* what reachedStopCriteria() returned, if it was called last
    hist,               \* the logStep calls since construction or the last clear
    nclear,             \* how often clearLoggerData was called
    ncalls,             \* how often logStep was called
    offset,             \* the offset of the model being trained
    registry            \* LoggerRegistry::entries, in insertion order

config == <<kind, is_a_stopper, max_iterations, used_loss, eps_for_break,
            oob_data, oob_response, max_time, time_unit, offset>>
iterVars == <<iterations>>
inbagVars == <<tracked_inbag_risk>>
oobVars == <<oob_prediction, tracked_oob_risk>>
timeVars == <<init_time, current_time, clock>>
vars == <<config, iterVars, inbagVars, oobVars, timeVars,
          alive, last_call, ret, hist, nclear, ncalls, registry>>

Call(op, res) == [op |-> op, res |-> res]
\* the member function called last
LastWas(op) == last_call.op = op

\* members of the other subclasses do not exist in the object
NoIteration == max_iterations = 0 /\ iterations = <<>>
NoRisk == used_loss = "none" /\ eps_for_break = Zero
NoInbag == tracked_inbag_risk = <<>>
NoOob ==
    /\ offset = Zero
    /\ oob_data = <<>> /\ oob_response = <<>>
    /\ oob_prediction = <<>> /\ tracked_oob_risk = <<>>
NoTime ==
    /\ max_time = 0 /\ time_unit = "none"
    /\ init_time = 0 /\ current_time = <<>> /\ clock = 0

Constructed ==
    /\ alive = TRUE
    /\ last_call = Call("construct", "ok")
    /\ ret = FALSE
    /\ hist = <<>>
    /\ nclear = 0
    /\ ncalls = 0
    /\ registry = <<>>

LoggerIteration_LoggerIteration ==
    /\ kind = "iteration"
    /\ is_a_stopper \in BOOLEAN
    /\ max_iterations \in 0..(MaxRound - 1)
    /\ iterations = <<>>
    /\ NoRisk /\ NoInbag /\ NoOob /\ NoTime
    /\ Constructed

\* eps_for_break is read by a stopper only: a logger that is none is
\* followed for one value of it
RiskStopper ==
    /\ is_a_stopper \in BOOLEAN
    /\ eps_for_break \in IF is_a_stopper THEN EpsForBreak ELSE {R(1, 20)}

LoggerInbagRisk_LoggerInbagRisk ==
    /\ kind = "inbag"
    /\ used_loss \in Losses
    /\ RiskStopper
    /\ tracked_inbag_risk = <<>>
    /\ NoIteration /\ NoOob /\ NoTime
    /\ Constructed

\* mutant: the prediction vector is created without a size
LoggerOobRisk_LoggerOobRisk_unsized ==
    /\ kind = "oob"
    /\ used_loss \in OobLosses
    /\ RiskStopper
    /\ offset \in Offsets
    /\ \E s \in OobSets :
          /\ oob_data = s.data
          /\ oob_response = s.response
          /\ oob_prediction = <<>>
    /\ tracked_oob_risk = <<>>
    /\ NoIteration /\ NoInbag /\ NoTime
    /\ Constructed

\* arma::vec temp (oob_response.size()) is not filled: its elements are
\* whatever the allocation held
LoggerOobRisk_LoggerOobRisk ==
    /\ kind = "oob"
    /\ used_loss \in OobLosses
    /\ RiskStopper
    /\ offset \in Offsets
    /\ \E s \in OobSets :
          /\ oob_data = s.data
          /\ oob_response = s.response
          /\ oob_prediction \in GarbageVectors(Len(s.response))
    /\ tracked_oob_risk = <<>>
    /\ NoIteration /\ NoInbag /\ NoTime
    /\ Constructed

\* the constructor was left by Rcpp::stop, forwarded to R as an error: no
\* object came to exist, nothing can be called on it
Rejected ==
    /\ alive = TRUE
    /\ last_call = Call("construct", "error")
    /\ ret = FALSE
    /\ hist = <<>>
    /\ nclear = 0
    /\ ncalls = 0
    /\ registry = <<>>

\* mutant: every unit is taken
TimeUnitAccepted_any(unit) == TRUE

\* the constructor's test of time_unit
TimeUnitAccepted(unit) ==
    ~(unit # "minutes" /\ unit # "seconds" /\ unit # "microseconds")

\* the constructor returns only for one of the three units; init_time is a
\* default-constructed time_point (the clock's epoch).  When it does not
\* return, kind is "none" and is_a_stopper, max_time and time_unit hold the
\* arguments that were passed.
LoggerTime_LoggerTime ==
    /\ is_a_stopper \in BOOLEAN
    /\ max_time \in 0..MaxTime
    /\ time_unit \in RequestedUnits
    /\ init_time = 0
    /\ current_time = <<>>
    /\ clock \in IF time_unit \in TimeUnits THEN ClockPoints(time_unit) ELSE {0}
    /\ IF TimeUnitAccepted(time_unit)
       THEN kind = "time" /\ Constructed
       ELSE kind = "none" /\ Rejected
    /\ NoIteration /\ NoRisk /\ NoInbag /\ NoOob

Init ==
    \/ LoggerIteration_LoggerIteration
    \/ LoggerInbagRisk_LoggerInbagRisk
    \/ LoggerOobRisk_LoggerOobRisk
    \/ LoggerTime_LoggerTime

(***************************************************************************)
(* Outcomes of undefined behaviour.                                        *)
(***************************************************************************)
\* vector::back() of an empty vector reads the element before the storage:
\* the read faults and the process dies, or it returns whatever lies there
\* and the comparison with it goes either way.
WildReadOutcomes ==
    { [alive |-> FALSE, ret |-> FALSE],
      [alive |-> TRUE, ret |-> FALSE],
      [alive |-> TRUE, ret |-> TRUE] }

(***************************************************************************)
(* LoggerIteration                                                         *)
(***************************************************************************)
\* mutant: the round is logged counted from zero
LoggerIteration_logStep_zeroBased ==
    /\ kind = "iteration" /\ alive
    /\ ncalls < MaxCalls /\ ncalls' = ncalls + 1
    /\ \E current_iteration \in (0..MaxRound) \cup {LongRound} :
          /\ iterations' = Append(iterations,
                                  IF current_iteration > 0
                                  THEN current_iteration - 1 ELSE 0)
          /\ hist' = Append(hist, [iter |-> current_iteration, res |-> "ok"])
    /\ last_call' = Call("logStep", "ok")
    /\ ret' = FALSE
    /\ UNCHANGED <<config, registry, inbagVars, oobVars, timeVars, alive, nclear>>

LoggerIteration_logStep ==
    /\ kind = "iteration" /\ alive
    /\ ncalls < MaxCalls /\ ncalls' = ncalls + 1
    /\ \E current_iteration \in (0..MaxRound) \cup {LongRound} :
          /\ iterations' = Append(iterations, current_iteration)
          /\ hist' = Append(hist, [iter |-> current_iteration, res |-> "ok"])
    /\ last_call' = Call("logStep", "ok")
    /\ ret' = FALSE
    /\ UNCHANGED <<config, registry, inbagVars, oobVars, timeVars, alive, nclear>>

\* mutant: the budget must be exceeded, not reached
IterationStopCriteria_strict(maxit, its) == maxit < Back(its)

\* the stop predicate of a stopper, on a non-empty log
IterationStopCriteria(maxit, its) == maxit <= Back(its)

\* mutant: the stop predicate is evaluated whether or not the logger is a stopper
LoggerIteration_reachedStopCriteria_anyLogger ==
    /\ kind = "iteration" /\ alive
    /\ IF iterations = <<>>
       THEN \E o \in WildReadOutcomes : ret' = o.ret /\ alive' = o.alive
       ELSE ret' = (max_iterations <= Back(iterations)) /\ alive' = alive
    /\ last_call' = Call("reachedStopCriteria", IF alive' THEN "ok" ELSE "crash")
    /\ UNCHANGED <<config, registry, iterVars, inbagVars, oobVars, timeVars, hist, nclear, ncalls>>

LoggerIteration_reachedStopCriteria ==
    /\ kind = "iteration" /\ alive
    /\ IF ~is_a_stopper
       THEN ret' = FALSE /\ alive' = alive
       ELSE IF iterations = <<>>
       THEN \E o \in WildReadOutcomes : ret' = o.ret /\ alive' = o.alive
       ELSE ret' = IterationStopCriteria(max_iterations, iterations) /\ alive' = alive
    /\ last_call' = Call("reachedStopCriteria", IF alive' THEN "ok" ELSE "crash")
    /\ UNCHANGED <<config, registry, iterVars, inbagVars, oobVars, timeVars, hist, nclear, ncalls>>

\* mutant: the rounds logged so far survive the clear
LoggerIteration_clearLoggerData_keepsLog ==
    /\ kind = "iteration" /\ alive
    /\ UNCHANGED iterations
    /\ hist' = <<>>
    /\ nclear < MaxClears /\ nclear' = nclear + 1
    /\ last_call' = Call("clearLoggerData", "ok")
    /\ ret' = FALSE
    /\ UNCHANGED <<config, registry, inbagVars, oobVars, timeVars, alive, ncalls>>

LoggerIteration_clearLoggerData ==
    /\ kind = "iteration" /\ alive
    /\ iterations' = <<>>
    /\ hist' = <<>>
    /\ nclear < MaxClears /\ nclear' = nclear + 1
    /\ last_call' = Call("clearLoggerData", "ok")
    /\ ret' = FALSE
    /\ UNCHANGED <<config, registry, inbagVars, oobVars, timeVars, alive, ncalls>>

\* std::vector<double> (iterations.begin(), iterations.end())
LoggerIteration_getLoggedData == [i \in 1..Len(iterations) |-> R(iterations[i], 1)]

(***************************************************************************)
(* LoggerInbagRisk                                                         *)
(***************************************************************************)
\* mutant: the new risk replaces the risk logged last
LoggerInbagRisk_logStep_overwrites ==
    /\ kind = "inbag" /\ alive
    /\ ncalls < MaxCalls /\ ncalls' = ncalls + 1
    /\ \E round \in TrainRounds :
          LET temp_risk == Mean(DefinedLoss(used_loss, round.response, round.prediction))
          IN  /\ tracked_inbag_risk' =
                    IF tracked_inbag_risk = <<>>
                    THEN <<temp_risk>>
                    ELSE [tracked_inbag_risk EXCEPT ![Len(tracked_inbag_risk)] = temp_risk]
              /\ hist' = Append(hist, [res |-> "ok",
                                       response |-> round.response,
                                       prediction |-> round.prediction])
    /\ last_call' = Call("logStep", "ok")
    /\ ret' = FALSE
    /\ UNCHANGED <<config, registry, iterVars, oobVars, timeVars, alive, nclear>>

LoggerInbagRisk_logStep ==
    /\ kind = "inbag" /\ alive
    /\ ncalls < MaxCalls /\ ncalls' = ncalls + 1
    /\ \E round \in TrainRounds :
          LET temp_risk == Mean(DefinedLoss(used_loss, round.response, round.prediction))
          IN  /\ tracked_inbag_risk' = Append(tracked_inbag_risk, temp_risk)
              /\ hist' = Append(hist, [res |-> "ok",
                                       response |-> round.response,
                                       prediction |-> round.prediction])
    /\ last_call' = Call("logStep", "ok")
    /\ ret' = FALSE
    /\ UNCHANGED <<config, registry, iterVars, oobVars, timeVars, alive, nclear>>

\* mutant: the improvement is taken relative to the latest risk
RiskStopCriteria_byLatest(stopper, eps, risk) ==
    IF stopper
    THEN IF Len(risk) > 1
         THEN LET diff == RSub(risk[Len(risk) - 1], risk[Len(risk)])
                  rel == DDiv(diff, risk[Len(risk)])
              IN  DLeq(rel, eps)
         ELSE FALSE
    ELSE FALSE

\* mutant: the relative improvement must be below eps_for_break, not equal to it
RiskStopCriteria_strictlyBelow(stopper, eps, risk) ==
    IF stopper
    THEN IF Len(risk) > 1
         THEN LET diff == RSub(risk[Len(risk) - 1], risk[Len(risk)])
                  rel == DDiv(diff, risk[Len(risk) - 1])
              IN  DLeq(rel, eps) /\ ~(rel.k = "fin" /\ rel.v = eps)
         ELSE FALSE
    ELSE FALSE

\* mutant: the improvement is taken relative to the first risk of the series
RiskStopCriteria_fromFirst(stopper, eps, risk) ==
    IF stopper
    THEN IF Len(risk) > 1
         THEN LET diff == RSub(risk[Len(risk) - 1], risk[Len(risk)])
                  rel == DDiv(diff, risk[1])
              IN  DLeq(rel, eps)
         ELSE FALSE
    ELSE FALSE

\* mutant: stops while the relative improvement is still above eps_for_break
RiskStopCriteria_flipped(stopper, eps, risk) ==
    IF stopper
    THEN IF Len(risk) > 1
         THEN LET diff == RSub(risk[Len(risk) - 1], risk[Len(risk)])
                  rel == DDiv(diff, risk[Len(risk) - 1])
              IN  ~DLeq(rel, eps)
         ELSE FALSE
    ELSE FALSE

\* the stop predicate both risk loggers share, as the code computes it: the
\* difference of the last two risks, divided by the earlier one, compared
\* with eps_for_break
RiskStopCriteria(stopper, eps, risk) ==
    IF stopper
    THEN IF Len(risk) > 1
         THEN LET diff == RSub(risk[Len(risk) - 1], risk[Len(risk)])
                  rel == DDiv(diff, risk[Len(risk) - 1])
              IN  DLeq(rel, eps)
         ELSE FALSE
    ELSE FALSE

LoggerInbagRisk_reachedStopCriteria ==
    /\ kind = "inbag" /\ alive
    /\ ret' = RiskStopCriteria(is_a_stopper, eps_for_break, tracked_inbag_risk)
    /\ last_call' = Call("reachedStopCriteria", "ok")
    /\ UNCHANGED <<config, registry, iterVars, inbagVars, oobVars, timeVars, alive, hist, nclear, ncalls>>

\* mutant: the risk series survives the clear
LoggerInbagRisk_clearLoggerData_keepsLog ==
    /\ kind = "inbag" /\ alive
    /\ UNCHANGED tracked_inbag_risk
    /\ hist' = <<>>
    /\ nclear < MaxClears /\ nclear' = nclear + 1
    /\ last_call' = Call("clearLoggerData", "ok")
    /\ ret' = FALSE
    /\ UNCHANGED <<config, registry, iterVars, oobVars, timeVars, alive, ncalls>>

LoggerInbagRisk_clearLoggerData ==
    /\ kind = "inbag" /\ alive
    /\ tracked_inbag_risk' = <<>>
    /\ hist' = <<>>
    /\ nclear < MaxClears /\ nclear' = nclear + 1
    /\ last_call' = Call("clearLoggerData", "ok")
    /\ ret' = FALSE
    /\ UNCHANGED <<config, registry, iterVars, oobVars, timeVars, alive, ncalls>>

LoggerInbagRisk_getLoggedData == tracked_inbag_risk

(***************************************************************************)
(* LoggerOobRisk                                                           *)
(***************************************************************************)
\* if (current_iteration == 1) oob_prediction.fill(offset)
OobInitialize(current_iteration, off, prediction) ==
    IF current_iteration = 1 THEN Fill(prediction, off) ELSE prediction

\* mutant: the round's prediction is added without the learning rate
OobAccumulate_unshrunk(prediction, learning_rate, temp_oob_prediction) ==
    VecAdd(prediction, temp_oob_prediction)

\* oob_prediction += learning_rate * temp_oob_prediction
OobAccumulate(prediction, learning_rate, temp_oob_prediction) ==
    VecAdd(prediction, VecScale(learning_rate, temp_oob_prediction))

\* accu(loss_vec_temp) / loss_vec_temp.size()
OobRisk(loss, response, prediction) == Mean(DefinedLoss(loss, response, prediction))

\* oob_data.find(id)->second when find returned end(): the pointer read
\* there is wild.  predict() on it faults ("crash"), or it raises (a
\* dimension mismatch, a failed allocation: "error", the call is left and
\* the object lives on), or it returns a vector of the expected size that
\* holds garbage and logStep runs to its end.  A vector of another size
\* is rejected by operator+= ("error"), or read past its end where the
\* size checks are compiled out (garbage, or "crash"); operator+= never
\* changes the size of oob_prediction.
WildLookupOutcomes(n) ==
    { [res |-> "crash", temp |-> <<>>], [res |-> "error", temp |-> <<>>] }
    \cup { [res |-> "ok", temp |-> [i \in 1..n |-> WildDouble]] }

LoggerOobRisk_logStep ==
    /\ kind = "oob" /\ alive
    /\ ncalls < MaxCalls /\ ncalls' = ncalls + 1
    /\ \E current_iteration \in OobRounds,
          learning_rate \in LearningRates, used_blearner \in Blearners :
          LET filled == OobInitialize(current_iteration, offset, oob_prediction)
              found == used_blearner.id \in DOMAIN oob_data
              outcomes ==
                  IF found
                  THEN { [res |-> "ok",
                          temp |-> Predict(used_blearner, oob_data[used_blearner.id])] }
                  ELSE WildLookupOutcomes(Len(oob_response))
          IN  \E o \in outcomes :
                /\ IF o.res = "ok"
                   THEN LET pred == OobAccumulate(filled, learning_rate, o.temp)
                        IN  /\ oob_prediction' = pred
                            /\ tracked_oob_risk' =
                                 Append(tracked_oob_risk,
                                        OobRisk(used_loss, oob_response, pred))
                   ELSE /\ oob_prediction' = filled
                        /\ UNCHANGED tracked_oob_risk
                /\ alive' = (o.res # "crash")
                /\ last_call' = Call("logStep", o.res)
                /\ hist' = Append(hist, [iter |-> current_iteration, res |-> o.res,
                                         lr |-> learning_rate,
                                         blearner |-> used_blearner, found |-> found])
    /\ ret' = FALSE
    /\ UNCHANGED <<config, registry, iterVars, inbagVars, timeVars, nclear>>

\* mutant: the query takes the risk it has looked at off the series
LoggerOobRisk_reachedStopCriteria_consuming ==
    /\ kind = "oob" /\ alive
    /\ ret' = RiskStopCriteria(is_a_stopper, eps_for_break, tracked_oob_risk)
    /\ tracked_oob_risk' =
          IF tracked_oob_risk = <<>> THEN <<>>
          ELSE SubSeq(tracked_oob_risk, 1, Len(tracked_oob_risk) - 1)
    /\ last_call' = Call("reachedStopCriteria", "ok")
    /\ UNCHANGED <<config, registry, iterVars, inbagVars, oob_prediction, timeVars,
                   alive, hist, nclear, ncalls>>

LoggerOobRisk_reachedStopCriteria ==
    /\ kind = "oob" /\ alive
    /\ ret' = RiskStopCriteria(is_a_stopper, eps_for_break, tracked_oob_risk)
    /\ last_call' = Call("reachedStopCriteria", "ok")
    /\ UNCHANGED <<config, registry, iterVars, inbagVars, oobVars, timeVars, alive, hist, nclear, ncalls>>

\* only the risk series is emptied; oob_prediction keeps its value
LoggerOobRisk_clearLoggerData ==
    /\ kind = "oob" /\ alive
    /\ tracked_oob_risk' = <<>>
    /\ UNCHANGED oob_prediction
    /\ hist' = <<>>
    /\ nclear < MaxClears /\ nclear' = nclear + 1
    /\ last_call' = Call("clearLoggerData", "ok")
    /\ ret' = FALSE
    /\ UNCHANGED <<config, registry, iterVars, inbagVars, timeVars, alive, ncalls>>

LoggerOobRisk_getLoggedData == tracked_oob_risk

(***************************************************************************)
(* LoggerTime                                                              *)
(***************************************************************************)
\* duration_cast<unit>(now - init_time).count(): whole units, truncated
Elapsed(unit, now, start) == (now - start) \div TicksPerUnit(unit)

\* mutant: the start is taken once per object, not once per session
TimeAnchor_once(log, start, now) == IF Len(log) = 0 /\ start = 0 THEN now ELSE start

\* mutant: the start is taken anew in every call
TimeAnchor_everyCall(log, start, now) == now

\* the start of the measurement: taken anew when the log is empty
TimeAnchor(log, start, now) == IF Len(log) = 0 THEN now ELSE start

LoggerTime_logStep ==
    /\ kind = "time" /\ alive
    /\ ncalls < MaxCalls /\ ncalls' = ncalls + 1
    /\ \E t1 \in ClockPoints(time_unit), t2 \in ClockPoints(time_unit) :
          /\ clock <= t1 /\ t1 <= t2
          /\ Len(current_time) # 0 => t1 = clock
          /\ init_time' = TimeAnchor(current_time, init_time, t1)
          /\ current_time' = Append(current_time, Elapsed(time_unit, t2, init_time'))
          /\ clock' = t2
          /\ hist' = Append(hist, [res |-> "ok", entered |-> t1, now |-> t2])
    /\ last_call' = Call("logStep", "ok")
    /\ ret' = FALSE
    /\ UNCHANGED <<config, registry, iterVars, inbagVars, oobVars, alive, nclear>>

\* mutant: the time budget must be exceeded, not reached
TimeStopCriteria_strict(maxt, log) == Back(log) > maxt

\* the stop predicate of a stopper, on a non-empty log
TimeStopCriteria(maxt, log) == Back(log) >= maxt

LoggerTime_reachedStopCriteria ==
    /\ kind = "time" /\ alive
    /\ IF ~is_a_stopper
       THEN ret' = FALSE /\ alive' = alive
       ELSE IF current_time = <<>>
       THEN \E o \in WildReadOutcomes : ret' = o.ret /\ alive' = o.alive
       ELSE ret' = TimeStopCriteria(max_time, current_time) /\ alive' = alive
    /\ last_call' = Call("reachedStopCriteria", IF alive' THEN "ok" ELSE "crash")
    /\ UNCHANGED <<config, registry, iterVars, inbagVars, oobVars, timeVars, hist, nclear, ncalls>>

\* the log is emptied; init_time keeps its value until the next logStep
LoggerTime_clearLoggerData ==
    /\ kind = "time" /\ alive
    /\ current_time' = <<>>
    /\ UNCHANGED <<init_time, clock>>
    /\ hist' = <<>>
    /\ nclear < MaxClears /\ nclear' = nclear + 1
    /\ last_call' = Call("clearLoggerData", "ok")
    /\ ret' = FALSE
    /\ UNCHANGED <<config, registry, iterVars, inbagVars, oobVars, alive, ncalls>>

LoggerTime_getLoggedData == [i \in 1..Len(current_time) |-> R(current_time[i], 1)]

(***************************************************************************)
(* The logger, whichever subclass it is.                                   *)
(***************************************************************************)
getLoggedData ==
    CASE kind = "iteration" -> LoggerIteration_getLoggedData
      [] kind = "inbag"     -> LoggerInbagRisk_getLoggedData
      [] kind = "oob"       -> LoggerOobRisk_getLoggedData
      [] kind = "time"      -> LoggerTime_getLoggedData
      [] kind = "none"      -> <<>>

\* the status text of each subclass, for the entry last logged
LoggerIteration_printLoggerStatus(last) ==
    LET max_iters == to_string(max_iterations)
    IN  setw(2 * Len(max_iters) + 1, to_string(last) \o <<"/">> \o max_iters)

LoggerInbagRisk_printLoggerStatus(last) == setw(StatusWidth, Fixed2(last))
LoggerOobRisk_printLoggerStatus(last) == setw(StatusWidth, Fixed2(last))
LoggerTime_printLoggerStatus(last) == setw(StatusWidth, to_string(last))

\* what back() of an empty log holds when the read does not fault
WildBack == IF kind \in {"iteration", "time"} THEN WildDouble.n ELSE WildDouble

printLoggerStatus(last) ==
    CASE kind = "iteration" -> LoggerIteration_printLoggerStatus(last)
      [] kind = "inbag"     -> LoggerInbagRisk_printLoggerStatus(last)
      [] kind = "oob"       -> LoggerOobRisk_printLoggerStatus(last)
      [] kind = "time"      -> LoggerTime_printLoggerStatus(last)

\* a caller asks for the logged data: the object is read, not written
Caller_getLoggedData ==
    /\ kind # "none" /\ alive
    /\ ret' = getLoggedData
    /\ last_call' = Call("getLoggedData", "ok")
    /\ UNCHANGED <<config, registry, iterVars, inbagVars, oobVars, timeVars,
                   alive, hist, nclear, ncalls>>

\* a caller asks for the status text; every subclass reads back() of its
\* log, which is undefined when the log is empty
Caller_printLoggerStatus ==
    /\ kind # "none" /\ alive
    /\ LET log == CASE kind = "iteration" -> iterations
                    [] kind = "inbag"     -> tracked_inbag_risk
                    [] kind = "oob"       -> tracked_oob_risk
                    [] kind = "time"      -> current_time
       IN  IF log = <<>>
           THEN \/ alive' = FALSE /\ ret' = FALSE
                \/ alive' = TRUE /\ ret' = printLoggerStatus(WildBack)
           ELSE alive' = alive /\ ret' = printLoggerStatus(Back(log))
    /\ last_call' = Call("printLoggerStatus", IF alive' THEN "ok" ELSE "crash")
    /\ UNCHANGED <<config, registry, iterVars, inbagVars, oobVars, timeVars,
                   hist, nclear, ncalls>>

Next ==
    \/ LoggerIteration_logStep
    \/ LoggerIteration_reachedStopCriteria
    \/ LoggerIteration_clearLoggerData
    \/ LoggerInbagRisk_logStep
    \/ LoggerInbagRisk_reachedStopCriteria
    \/ LoggerInbagRisk_clearLoggerData
    \/ LoggerOobRisk_logStep
    \/ LoggerOobRisk_reachedStopCriteria
    \/ LoggerOobRisk_clearLoggerData
    \/ LoggerTime_logStep
    \/ LoggerTime_reachedStopCriteria
    \/ LoggerTime_clearLoggerData

Spec == Init /\ [][Next]_vars

\* one specification per subclass, and one for the two risk loggers
NextIteration ==
    \/ LoggerIteration_logStep
    \/ LoggerIteration_reachedStopCriteria
    \/ LoggerIteration_clearLoggerData

NextInbagRisk ==
    \/ LoggerInbagRisk_logStep
    \/ LoggerInbagRisk_reachedStopCriteria
    \/ LoggerInbagRisk_clearLoggerData

NextOobRisk ==
    \/ LoggerOobRisk_logStep
    \/ LoggerOobRisk_reachedStopCriteria
    \/ LoggerOobRisk_clearLoggerData

NextTime ==
    \/ LoggerTime_logStep
    \/ LoggerTime_reachedStopCriteria
    \/ LoggerTime_clearLoggerData

SpecIteration == LoggerIteration_LoggerIteration /\ [][NextIteration]_vars
SpecInbagRisk == LoggerInbagRisk_LoggerInbagRisk /\ [][NextInbagRisk]_vars
SpecOobRisk == LoggerOobRisk_LoggerOobRisk /\ [][NextOobRisk]_vars
SpecTime == LoggerTime_LoggerTime /\ [][NextTime]_vars
SpecRisk ==
    /\ LoggerInbagRisk_LoggerInbagRisk \/ LoggerOobRisk_LoggerOobRisk
    /\ [][NextInbagRisk \/ NextOobRisk]_vars

\* the loggers with the callers that read them
NextStatus ==
    \/ Caller_getLoggedData
    \/ Caller_printLoggerStatus

SpecIterationStatus ==
    LoggerIteration_LoggerIteration /\ [][NextIteration \/ NextStatus]_vars

SpecStatus == Init /\ [][Next \/ NextStatus]_vars

(***************************************************************************)
(* The training loop around an iteration logger: per round it calls        *)
(* logStep with the next round index (1, 2, 3, ...), then asks             *)
(* reachedStopCriteria() and leaves when the answer is true.  The logger   *)
(* is cleared before it is trained with again.                             *)
(***************************************************************************)
\* the loop has been left: the stop query was answered with true
Halted == LastWas("reachedStopCriteria") /\ alive /\ ret = TRUE

Training_logStep ==
    /\ last_call.op \in {"construct", "clearLoggerData", "reachedStopCriteria"}
    /\ ~Halted
    /\ LoggerIteration_logStep
    /\ hist'[Len(hist')].iter = Len(hist) + 1

Training_reachedStopCriteria ==
    /\ LastWas("logStep")
    /\ LoggerIteration_reachedStopCriteria

\* a loop that does not leave: it goes on with the next round
Training_logStepPastStop ==
    /\ Halted
    /\ LoggerIteration_logStep
    /\ hist'[Len(hist')].iter = Len(hist) + 1

Training_clearLoggerData ==
    /\ Halted
    /\ LoggerIteration_clearLoggerData

NextTraining ==
    \/ Training_logStep
    \/ Training_reachedStopCriteria
    \/ Training_logStepPastStop
    \/ Training_clearLoggerData

\* the loop proper runs on: a round that can be logged is logged, a logged
\* round is followed by the stop query
SpecTraining ==
    /\ LoggerIteration_LoggerIteration
    /\ [][NextTraining]_vars
    /\ WF_vars(Training_logStep)
    /\ WF_vars(Training_reachedStopCriteria)

(***************************************************************************)
(* LoggerRegistry: loggers held together and driven round by round.  An    *)
(* entry is a logger with its configuration and its log.                   *)
(***************************************************************************)
\* the round indices a registry is called with
RegistryRounds == {1, MaxCalls}

\* the loggers a registry is followed with
RegistryEntries ==
    { [kind |-> "iteration", is_a_stopper |-> st, max_iterations |-> m,
       used_loss |-> "none", eps_for_break |-> Zero, log |-> <<>>] :
          st \in BOOLEAN, m \in {1, MaxCalls} }
    \cup
    { [kind |-> "inbag", is_a_stopper |-> st, max_iterations |-> 0,
       used_loss |-> "absolute", eps_for_break |-> e, log |-> <<>>] :
          st \in BOOLEAN, e \in {Zero, R(1, 20)} }

LoggerRegistry_LoggerRegistry ==
    /\ kind = "none"
    /\ is_a_stopper = FALSE
    /\ registry \in { <<a, b>> : a \in RegistryEntries, b \in RegistryEntries }
    /\ NoIteration /\ NoRisk /\ NoInbag /\ NoOob /\ NoTime
    /\ alive = TRUE
    /\ last_call = Call("construct", "ok")
    /\ ret = FALSE
    /\ hist = <<>>
    /\ nclear = 0
    /\ ncalls = 0

getIfLoggerIsStopper(l) == l.is_a_stopper

\* logStep of one entry, by its subclass
Logger_logStep(l, current_iteration, round) ==
    IF l.kind = "iteration"
    THEN [l EXCEPT !.log = Append(@, current_iteration)]
    ELSE [l EXCEPT !.log =
             Append(@, Mean(DefinedLoss(l.used_loss, round.response, round.prediction)))]

\* reachedStopCriteria of one entry, by its subclass (an iteration logger
\* with a non-empty log)
Logger_reachedStopCriteria(l) ==
    IF l.kind = "iteration"
    THEN IF l.is_a_stopper THEN IterationStopCriteria(l.max_iterations, l.log) ELSE FALSE
    ELSE RiskStopCriteria(l.is_a_stopper, l.eps_for_break, l.log)

\* one round: logStep on every entry with the same round context
LoggerRegistry_logStep ==
    /\ registry # <<>> /\ alive
    /\ ncalls < MaxCalls /\ ncalls' = ncalls + 1
    /\ \E current_iteration \in RegistryRounds, round \in TrainRounds :
          registry' = [i \in DOMAIN registry |->
                          Logger_logStep(registry[i], current_iteration, round)]
    /\ last_call' = Call("logStep", "ok")
    /\ ret' = FALSE
    /\ UNCHANGED <<config, iterVars, inbagVars, oobVars, timeVars, alive, hist, nclear>>

\* the logical OR of reachedStopCriteria() over the entries flagged as
\* stoppers; an iteration stopper that has logged nothing reads back() of
\* an empty vector
LoggerRegistry_shouldStop ==
    /\ registry # <<>> /\ alive
    /\ LET stoppers == { i \in DOMAIN registry : getIfLoggerIsStopper(registry[i]) }
           wild == \E i \in stoppers :
                       registry[i].kind = "iteration" /\ registry[i].log = <<>>
       IN  IF wild
           THEN \E o \in WildReadOutcomes : ret' = o.ret /\ alive' = o.alive
           ELSE /\ ret' = (\E i \in stoppers : Logger_reachedStopCriteria(registry[i]))
                /\ alive' = alive
    /\ last_call' = Call("shouldStop", IF alive' THEN "ok" ELSE "crash")
    /\ UNCHANGED <<config, registry, iterVars, inbagVars, oobVars, timeVars,
                   hist, nclear, ncalls>>

NextRegistry ==
    \/ LoggerRegistry_logStep
    \/ LoggerRegistry_shouldStop

SpecRegistry == LoggerRegistry_LoggerRegistry /\ [][NextRegistry]_vars

(***************************************************************************)
(* Properties.                                                             *)
(***************************************************************************)
\* C1: reachedStopCriteria() returns false, and is well-defined, whenever
\* the log is empty (before any logStep, and directly after a clear), for
\* every subclass and for stoppers and non-stoppers alike.
C1_EmptyLogNeverStops ==
    (LastWas("reachedStopCriteria") /\ Len(getLoggedData) = 0)
        => (alive /\ ret = FALSE)

\* the logStep calls of the session that ran to their end
Completed == { i \in 1..Len(hist) : hist[i].res = "ok" }

\* C2: the length of getLoggedData() is the number of logStep calls made
\* since the last clear (or since construction), and the entries stand in
\* call order: entry i is what the i-th call logged.
C2_LogLengthIsCallCount ==
    /\ Len(getLoggedData) = Cardinality(Completed)
    /\ kind = "iteration" =>
          \A i \in 1..Len(hist) : getLoggedData[i] = R(hist[i].iter, 1)
    /\ kind = "inbag" =>
          \A i \in 1..Len(hist) :
              getLoggedData[i] =
                  Mean(DefinedLoss(used_loss, hist[i].response, hist[i].prediction))
    /\ kind = "time" =>
          \A i \in 1..Len(hist), j \in 1..Len(hist) :
              (i <= j) => RLeq(getLoggedData[i], getLoggedData[j])

C2_Witness ==
    /\ kind = "time" /\ nclear = 1 /\ ncalls = 3
    /\ Len(hist) = 2 /\ Len(getLoggedData) = 2

\* C3: a logger that is not a stopper returns false from
\* reachedStopCriteria() in every state, whatever it has logged.
C3_NonStopperNeverStops ==
    (~is_a_stopper /\ LastWas("reachedStopCriteria")) => (alive /\ ret = FALSE)

C3_Witness ==
    /\ kind = "iteration" /\ ~is_a_stopper /\ LastWas("reachedStopCriteria")
    /\ iterations # <<>> /\ Back(iterations) >= max_iterations

TrackedRisk == IF kind = "inbag" THEN tracked_inbag_risk ELSE tracked_oob_risk

\* (prev - last) / prev <= eps, decided without the quotient: multiplied
\* out by prev when prev # 0; for prev = 0 the double quotient is -inf when
\* last > 0 (below every eps), and +inf or NaN otherwise (not <= eps).
RelativeImprovementAtMost(prev, last, eps) ==
    IF prev.n > 0 THEN RLeq(RSub(prev, last), RMul(eps, prev))
    ELSE IF prev.n < 0 THEN RLeq(RMul(eps, prev), RSub(prev, last))
    ELSE last.n > 0

\* C5: a risk logger that is a stopper does not stop with fewer than two
\* logged risks; with n >= 2 it stops exactly when
\* (risk[n-2] - risk[n-1]) / risk[n-2] <= eps_for_break over its own series.
C5_RiskStopsOnPlateau ==
    (kind \in {"inbag", "oob"} /\ is_a_stopper /\ LastWas("reachedStopCriteria"))
        => LET n == Len(TrackedRisk)
           IN  IF n < 2
               THEN ret = FALSE
               ELSE ret <=> RelativeImprovementAtMost(TrackedRisk[n - 1],
                                                      TrackedRisk[n], eps_for_break)

C5_Witness ==
    /\ kind = "inbag" /\ is_a_stopper /\ eps_for_break = R(1, 20)
    /\ tracked_inbag_risk = <<One, R(9, 10), R(87, 100)>>
    /\ LastWas("reachedStopCriteria") /\ ret = TRUE

\* what the weak model of call h predicts on its held-out feature data,
\* shrunk by the learning rate of that call
Contribution(h) == VecScale(h.lr, Predict(h.blearner, oob_data[h.blearner.id]))

\* C6: on the first logStep of a validation-risk logger (since construction
\* or since a clear) the held-out prediction is set to the offset before
\* the round's contribution is added, whatever round index is passed.
C6_FirstCallStartsFromOffset ==
    (kind = "oob" /\ Len(hist) = 1 /\ hist[1].res = "ok" /\ hist[1].found)
        => oob_prediction = VecAdd(Fill(oob_response, offset), Contribution(hist[1]))

\* C7: clearLoggerData() on a validation-risk logger resets the held-out
\* prediction to zero for every observation and empties the risk series.
C7_ClearZeroesPrediction ==
    (kind = "oob" /\ LastWas("clearLoggerData") /\ ncalls >= 1)
        => (oob_prediction = Fill(oob_response, Zero) /\ tracked_oob_risk = <<>>)

\* C8: a logStep whose weak model names a feature that is no key of the
\* held-out data ends in an error and leaves the held-out prediction and
\* the risk series as they were.
C8_MissingIdIsAllOrNothing ==
    [][(kind = "oob" /\ ncalls' = ncalls + 1 /\ ~hist'[Len(hist')].found)
          => /\ last_call'.res \in {"error", "crash"}
             /\ oob_prediction' = oob_prediction
             /\ tracked_oob_risk' = tracked_oob_risk]_vars

\* the session's calls were rounds 1, 2, ..., k, each with a feature of the
\* held-out data
RoundsInOrder ==
    \A i \in 1..Len(hist) : hist[i].iter = i /\ hist[i].res = "ok" /\ hist[i].found

\* offset + the sum over rounds 1..k of learning_rate_i * prediction_i
RECURSIVE ExpectedPrediction(_)
ExpectedPrediction(k) ==
    IF k = 0
    THEN [j \in 1..Len(oob_response) |-> offset]
    ELSE [j \in 1..Len(oob_response) |->
            RAdd(ExpectedPrediction(k - 1)[j], Contribution(hist[k])[j])]

\* the mean loss of (held-out response, prediction)
MeanLoss(prediction) ==
    LET l == DefinedLoss(used_loss, oob_response, prediction)
    IN  R(Accu(l).n, Accu(l).d * Len(oob_response))

\* C9: driven with rounds 1..k, the held-out prediction after round k is
\* offset + sum of learning_rate_i * (weak model i's held-out prediction),
\* and the risk appended in round k is the mean loss of it.
C9_PredictionIsOffsetPlusSum ==
    (kind = "oob" /\ RoundsInOrder /\ Len(hist) >= 1)
        => /\ oob_prediction = ExpectedPrediction(Len(hist))
           /\ Len(tracked_oob_risk) = Len(hist)
           /\ \A k \in 1..Len(hist) :
                 tracked_oob_risk[k] = MeanLoss(ExpectedPrediction(k))

C9_Witness ==
    /\ kind = "oob" /\ RoundsInOrder /\ Len(hist) = 3 /\ offset = Zero
    /\ \A i \in 1..3 : hist[i].lr = R(1, 10) /\ hist[i].blearner.id = "x1"
    /\ oob_prediction[1] = R(6, 10)

\* e is the number of whole units in d ticks
WholeUnits(e, d) ==
    /\ e * TicksPerUnit(time_unit) <= d
    /\ d < (e + 1) * TicksPerUnit(time_unit)

\* C10: the first logStep of a session (after construction, after a clear)
\* takes the start timestamp, and every logStep of the session appends the
\* time since then in whole configured units.
C10_ElapsedSinceSessionStart ==
    (kind = "time" /\ Len(hist) >= 1)
        => /\ init_time = hist[1].entered
           /\ Len(current_time) = Len(hist)
           /\ \A i \in 1..Len(hist) :
                 WholeUnits(current_time[i], hist[i].now - hist[1].entered)

C10_Witness ==
    /\ kind = "time" /\ nclear = 1 /\ ncalls = 3 /\ Len(hist) = 2
    /\ init_time >= TicksPerUnit(time_unit)
    /\ current_time = <<0, 1>>

C12_UnknownUnitFailsConstruction ==
    /\ kind = "time" => time_unit \in {"seconds", "minutes", "microseconds"}
    /\ time_unit \in {"seconds", "minutes", "microseconds"} =>
          /\ kind = "time"
          /\ LastWas("construct") => last_call.res = "ok"
    /\ time_unit \notin {"seconds", "minutes", "microseconds", "none"} =>
          /\ kind = "none"
          /\ last_call = Call("construct", "error")
          /\ ncalls = 0 /\ current_time = <<>>

C12_Witness ==
    /\ time_unit = "days" /\ kind = "none"
    /\ last_call = Call("construct", "error")

\* the stop predicate of an entry that is a stopper, stated on its log
StopPredicate(l) ==
    IF l.kind = "iteration"
    THEN l.log[Len(l.log)] >= l.max_iterations
    ELSE /\ Len(l.log) >= 2
         /\ RelativeImprovementAtMost(l.log[Len(l.log) - 1], l.log[Len(l.log)],
                                      l.eps_for_break)

C14_PredictionAsLongAsResponse ==
    kind = "oob" => Len(oob_prediction) = Len(oob_response)

C14_Witness ==
    /\ kind = "oob" /\ nclear = 1 /\ ncalls = 3
    /\ last_call = Call("logStep", "error")
    /\ Len(tracked_oob_risk) = 1 /\ Len(oob_prediction) = 2

\* C15: for an iteration logger with at least one logged round,
\* printLoggerStatus() returns "<round>/<max_iterations>" right-justified
\* in a field whose width is exactly 2 * digits(max_iterations) + 1, for
\* every logged round index, also one with more digits than max_iterations.
C15_StatusHasHeaderWidth ==
    (kind = "iteration" /\ LastWas("printLoggerStatus") /\ iterations # <<>>)
        => LET text == to_string(iterations[Len(iterations)])
                           \o <<"/">> \o to_string(max_iterations)
               width == 2 * Len(to_string(max_iterations)) + 1
           IN  /\ alive
               /\ Len(ret) = width
               /\ Len(text) <= width
               /\ \A i \in 1..width :
                     ret[i] = IF i <= width - Len(text) THEN " "
                              ELSE text[i - (width - Len(text))]

\* the series a logger holds, as it is stored
LoggedSeries ==
    CASE kind = "iteration" -> iterations
      [] kind = "inbag"     -> tracked_inbag_risk
      [] kind = "oob"       -> tracked_oob_risk
      [] kind = "time"      -> current_time

\* the held-out prediction of a validation-risk logger that was constructed
\* with prediction vector g and then given the first k calls of the session
RECURSIVE FreshOobPrediction(_, _)
FreshOobPrediction(g, k) ==
    IF k = 0 THEN g
    ELSE OobAccumulate(OobInitialize(hist[k].iter, offset, FreshOobPrediction(g, k - 1)),
                       hist[k].lr,
                       Predict(hist[k].blearner, oob_data[hist[k].blearner.id]))

\* the series of a logger of the same configuration that was constructed
\* (a validation-risk logger with prediction vector g) and then given the
\* calls of the session
FreshSeries(g) ==
    CASE kind = "iteration" -> [i \in 1..Len(hist) |-> hist[i].iter]
      [] kind = "inbag" ->
            [i \in 1..Len(hist) |->
                Mean(DefinedLoss(used_loss, hist[i].response, hist[i].prediction))]
      [] kind = "oob" ->
            [i \in 1..Len(hist) |->
                OobRisk(used_loss, oob_response, FreshOobPrediction(g, i))]
      [] kind = "time" ->
            [i \in 1..Len(hist) |->
                Elapsed(time_unit, hist[i].now, TimeAnchor(<<>>, 0, hist[1].entered))]

\* reachedStopCriteria() of a logger of this configuration that holds log
ReachedOn(log) ==
    CASE kind = "iteration" -> is_a_stopper /\ IterationStopCriteria(max_iterations, log)
      [] kind \in {"inbag", "oob"} -> RiskStopCriteria(is_a_stopper, eps_for_break, log)
      [] kind = "time" -> is_a_stopper /\ TimeStopCriteria(max_time, log)

\* the logger was cleared and then given rounds 1, 2, ..., k, each of which
\* ran to its end
Replayed ==
    /\ kind # "none" /\ nclear >= 1 /\ Len(hist) >= 1
    /\ \A i \in 1..Len(hist) :
          /\ hist[i].res = "ok"
          /\ kind \in {"iteration", "oob"} => hist[i].iter = i
          /\ kind = "oob" => hist[i].found

\* C16: after clearLoggerData(), replaying rounds 1..k on the reused logger
\* gives the same series, and the same reachedStopCriteria() after every
\* round, as a freshly constructed logger of the same configuration given
\* the same inputs, for each of the four subclasses.
C16_ReplayEqualsFresh ==
    Replayed =>
        \A g \in IF kind = "oob" THEN GarbageVectors(Len(oob_response)) ELSE {<<>>} :
            /\ LoggedSeries = FreshSeries(g)
            /\ LastWas("reachedStopCriteria") =>
                   (alive /\ ret = ReachedOn(FreshSeries(g)))

C16_Witness ==
    /\ kind = "oob" /\ Replayed /\ ncalls = 3 /\ Len(hist) = 2
    /\ is_a_stopper /\ LastWas("reachedStopCriteria") /\ ret = TRUE

\* C17: a logStep call only appends, for every subclass: the series held
\* before the call is an unchanged prefix of the series held after it, and
\* exactly one new entry follows that prefix.
C17_LogStepOnlyAppends ==
    [][(kind # "none" /\ ncalls' = ncalls + 1 /\ last_call'.res = "ok")
          => /\ Len(LoggedSeries') = Len(LoggedSeries) + 1
             /\ SubSeq(LoggedSeries', 1, Len(LoggedSeries)) = LoggedSeries]_vars

C17_Witness ==
    /\ kind = "oob" /\ last_call = Call("logStep", "ok")
    /\ Len(tracked_oob_risk) = 3 /\ Len(hist) = 3

\* the member functions that are queries
Queries == {"reachedStopCriteria", "getLoggedData", "printLoggerStatus"}

\* what a logger holds: configuration, series, held-out prediction, anchor
ObjectState ==
    <<config, iterations, tracked_inbag_risk, oob_prediction, tracked_oob_risk,
      init_time, current_time>>

\* C18: reachedStopCriteria(), getLoggedData() and printLoggerStatus() are
\* pure queries: called in a state with a non-empty log, each leaves the
\* series, the held-out prediction, the time anchor and the configuration
\* unchanged, and returns what it returned the time before.
C18_QueriesArePure ==
    [][(kind # "none" /\ last_call'.op \in Queries /\ LoggedSeries # <<>>)
          => /\ alive'
             /\ ObjectState' = ObjectState
             /\ last_call.op = last_call'.op => ret' = ret]_vars

C18_Witness ==
    /\ kind = "time" /\ LastWas("printLoggerStatus") /\ alive
    /\ current_time = <<0, 1>>

\* earlier entries another logger of the same subclass may hold
AltPrefixes ==
    LET v == IF kind \in {"inbag", "oob"} THEN {Zero, R(1, 2), One}
             ELSE {0, 1, LongRound}
    IN  {<<>>} \cup { <<a>> : a \in v } \cup { <<a, b>> : a \in v, b \in v }

\* how many of the last entries the stop decision of the subclass reads
TailRead == IF kind \in {"inbag", "oob"} THEN 2 ELSE 1

\* C19: reachedStopCriteria() is determined by the configuration and the
\* last entry (iteration, time) or the last two entries (risk loggers, logs
\* of length >= 2): a logger of the same subclass and configuration whose
\* log ends in the same entries returns the same decision, whatever its
\* earlier entries are.
C19_StopReadsOnlyTheTail ==
    (kind # "none" /\ LastWas("reachedStopCriteria")
        /\ Len(LoggedSeries) >= TailRead)
        => /\ alive
           /\ \A p \in AltPrefixes :
                 ReachedOn(p \o SubSeq(LoggedSeries,
                                       Len(LoggedSeries) - TailRead + 1,
                                       Len(LoggedSeries))) = ret

C19_Witness ==
    /\ kind = "inbag" /\ is_a_stopper /\ LastWas("reachedStopCriteria")
    /\ tracked_inbag_risk = <<R(1, 2), R(9, 10), R(87, 100)>>
    /\ eps_for_break = R(1, 20) /\ ret = TRUE

\* a training starts, and the rounds the budget asks for can still be run
TrainingStarts ==
    /\ kind = "iteration" /\ is_a_stopper /\ max_iterations >= 1
    /\ iterations = <<>>
    /\ ncalls + max_iterations <= MaxCalls

\* after every round of a training the stop query is true exactly from
\* round max_iterations on
StopsFromRoundM ==
    (kind = "iteration" /\ is_a_stopper /\ max_iterations >= 1
        /\ LastWas("reachedStopCriteria"))
        => (alive /\ (ret <=> Len(iterations) >= max_iterations))

C21_StagnationStops ==
    (kind \in {"inbag", "oob"} /\ is_a_stopper /\ eps_for_break.n >= 0
        /\ LastWas("reachedStopCriteria") /\ Len(TrackedRisk) >= 2)
        => LET prev == TrackedRisk[Len(TrackedRisk) - 1]
               last == TrackedRisk[Len(TrackedRisk)]
           IN  (prev.n > 0 /\ RLeq(prev, last)) => ret = TRUE

C21_Witness ==
    /\ kind = "inbag" /\ is_a_stopper /\ eps_for_break = Zero
    /\ LastWas("reachedStopCriteria")
    /\ tracked_inbag_risk = <<One, R(9, 10), R(9, 10)>> /\ ret = TRUE

\* C22: between two clearLoggerData calls the elapsed values a time logger
\* logs are non-decreasing, so once reachedStopCriteria() of a stopper is
\* true (an entry has reached max_time) it is true after every further
\* logStep until the next clear.
C22_ElapsedNeverDecreases ==
    kind = "time" =>
        /\ \A i \in 1..Len(current_time), j \in 1..Len(current_time) :
              i <= j => current_time[i] <= current_time[j]
        /\ (is_a_stopper /\ LastWas("reachedStopCriteria")
               /\ \E i \in 1..Len(current_time) : current_time[i] >= max_time)
              => (alive /\ ret = TRUE)

C22_Witness ==
    /\ kind = "time" /\ is_a_stopper /\ max_time = 1
    /\ LastWas("reachedStopCriteria")
    /\ current_time = <<0, 1, 2>> /\ ret = TRUE

====
